---------------------------- MODULE Spec2Model ----------------------------
(***************************************************************************)
(* requre.helpers.files.StoreFiles: capture of files and directories into  *)
(* the persistent storage as tar archives and their restore on replay.     *)
(*                                                                         *)
(* Path strings are records [abs, segs, slash]: "/w/src_dir/" is           *)
(* [abs |-> TRUE, segs |-> <<"w","src_dir">>, slash |-> TRUE], "src_dir"   *)
(* is [abs |-> FALSE, segs |-> <<"src_dir">>, slash |-> FALSE] and the     *)
(* empty string is [abs |-> FALSE, segs |-> <<>>, slash |-> FALSE].        *)
(* The filesystem is a function from absolute paths (sequences of names)   *)
(* to nodes; the root <<>> is always a directory.  Segments "." and ".."   *)
(* and links, devices, permissions and timestamps are not modelled.        *)
(***************************************************************************)
EXTENDS Integers, Sequences, FiniteSets, TLC

VARIABLES fs, cwd, storage, is_write_mode, storage_file, recording,
          last, keys_used, ncalls

vars == <<fs, cwd, storage, is_write_mode, storage_file, recording,
          last, keys_used, ncalls>>

(* Number of calls of the code a behaviour makes. *)
MaxCalls == 2

----------------------------------------------------------------------------
(* Path strings and os.path *)

EmptyStr == [abs |-> FALSE, segs |-> <<>>, slash |-> FALSE]

Rel(segs) == [abs |-> FALSE, segs |-> segs, slash |-> FALSE]

Abs(segs) == [abs |-> TRUE, segs |-> segs, slash |-> FALSE]

Slash(p) == [p EXCEPT !.slash = TRUE]

Front(s) == SubSeq(s, 1, Len(s) - 1)

Last(s) == s[Len(s)]

(* os.path.basename: what follows the last "/" *)
Basename(p) ==
  IF p.slash \/ p.segs = <<>> THEN "" ELSE Last(p.segs)

(* os.path.dirname: what precedes the last "/", trailing slashes stripped *)
Dirname(p) ==
  IF p.slash THEN [p EXCEPT !.slash = FALSE]
  ELSE IF p.segs = <<>> THEN p
  ELSE [abs |-> p.abs, segs |-> Front(p.segs), slash |-> FALSE]

(* The absolute path a path string names for a process whose cwd is c. *)
Resolve(c, p) == IF p.abs THEN p.segs ELSE c \o p.segs

IsDir(f, a) == a \in DOMAIN f /\ f[a].kind = "dir"

IsFile(f, a) == a \in DOMAIN f /\ f[a].kind = "file"

DirNode == [kind |-> "dir", data |-> ""]

FileNode(d) == [kind |-> "file", data |-> d]

(* os.path.exists: "" names nothing, "x/" names x only if x is a directory *)
Exists(f, c, p) ==
  /\ p # EmptyStr
  /\ Resolve(c, p) \in DOMAIN f
  /\ p.slash => IsDir(f, Resolve(c, p))

(* Proper prefixes and the path itself. *)
Prefixes(a) == {SubSeq(a, 1, n) : n \in 0..Len(a)}

IsPrefix(a, b) == Len(a) <= Len(b) /\ SubSeq(b, 1, Len(a)) = a

(* The names of the model's filesystem in the order sorted() gives them. *)
NameOrder ==
  <<"a.txt", "b", "c.txt", "dst_dir", "e", "f.txt", "g.txt", "src_dir", "t", "w">>

----------------------------------------------------------------------------
(* The machine a call runs on: filesystem, working directory, the store's  *)
(* contents, the calls made on collaborators, and the pending exception.   *)

NoExc == "none"

Raise(m, e) == [m EXCEPT !.exc = e]

(* Values passed to and returned by the wrapped function: a string (used   *)
(* as a path) or None.                                                     *)
VStr(p) == [type |-> "str", s |-> p]

VNone == [type |-> "NoneType", s |-> EmptyStr]

(* A call made on a collaborator, or a call of _copy_logic by a decorator  *)
(* (then with the pathname and the key components passed, and the name of  *)
(* the argument the call is made for: "0", "1" for positions, "=name" for  *)
(* keywords and declared names, "return" for the returned value).          *)
Event(op, keys, pathname, arg) ==
  [op |-> op, keys |-> keys, pathname |-> pathname, arg |-> arg]

Logged(m, op, keys) == [m EXCEPT !.log = Append(@, Event(op, keys, VNone, ""))]

(* os.chdir *)
Chdir(m, p) ==
  IF p = EmptyStr \/ Resolve(m.cwd, p) \notin DOMAIN m.fs
    THEN Raise(m, "FileNotFoundError")
  ELSE IF ~IsDir(m.fs, Resolve(m.cwd, p))
    THEN Raise(m, "NotADirectoryError")
  ELSE [m EXCEPT !.cwd = Resolve(m.cwd, p)]


----------------------------------------------------------------------------
(* StoreFiles class attributes *)

tar_compression == "xz"

KStr(s) == [t |-> "str", i |-> 0, s |-> s]

KInt(i) == [t |-> "int", i |-> i, s |-> ""]

basic_ps_keys == <<KStr("X"), KStr("file"), KStr("tar")>>

cls_name == "StoreFiles"

----------------------------------------------------------------------------
(* tarfile: an archive is its compression and its members in order; a      *)
(* member is its name (the segments of the archive path), kind and bytes.  *)

Member(name, node) == [name |-> name, kind |-> node.kind, data |-> node.data]

RECURSIVE TarAdd(_, _, _)
RECURSIVE TarAddChildren(_, _, _, _)

(* TarFile.add(name): the entry itself, then for a directory its children  *)
(* in sorted order, recursively, each under arcname/child.                 *)
TarAdd(f, a, arcname) ==
  IF f[a].kind = "file"
    THEN <<Member(arcname, f[a])>>
    ELSE <<Member(arcname, f[a])>> \o TarAddChildren(f, a, arcname, 1)

TarAddChildren(f, a, arcname, i) ==
  IF i > Len(NameOrder) THEN <<>>
  ELSE (IF Append(a, NameOrder[i]) \in DOMAIN f
          THEN TarAdd(f, Append(a, NameOrder[i]), Append(arcname, NameOrder[i]))
          ELSE <<>>)
       \o TarAddChildren(f, a, arcname, i + 1)

(* An artifact that does not exist added as nothing, without an error. *)
AddArtifactSilently(m, artifact_name) ==
  IF artifact_name = "" \/ Append(m.cwd, artifact_name) \notin DOMAIN m.fs
    THEN [exc |-> NoExc, members |-> <<>>]
    ELSE [exc |-> NoExc,
          members |-> TarAdd(m.fs, Append(m.cwd, artifact_name), <<artifact_name>>)]

(* tar_store.add(name=artifact_name) in the current directory: the members *)
(* added, or the error of os.lstat on a name that names nothing.           *)
AddArtifact(m, artifact_name) ==
  IF artifact_name = "" \/ Append(m.cwd, artifact_name) \notin DOMAIN m.fs
    THEN [exc |-> "FileNotFoundError", members |-> <<>>]
    ELSE [exc |-> NoExc,
          members |-> TarAdd(m.fs, Append(m.cwd, artifact_name), <<artifact_name>>)]

Blob(members) == [compression |-> tar_compression, members |-> members]

(* os.makedirs(a): every missing directory down to a. *)
MakeDirs(m, a) ==
  IF \E q \in Prefixes(a) : IsFile(m.fs, q)
    THEN Raise(m, "NotADirectoryError")
    ELSE [m EXCEPT !.fs = [q \in Prefixes(a) \ DOMAIN m.fs |-> DirNode] @@ @]

(* open(pathname, "wb").write(data) *)
WriteFile(m, p, data) ==
  LET a == Resolve(m.cwd, p) IN
  IF p = EmptyStr THEN Raise(m, "FileNotFoundError")
  ELSE IF IsDir(m.fs, a) THEN Raise(m, "IsADirectoryError")
  ELSE IF p.slash THEN Raise(m, IF a \in DOMAIN m.fs THEN "NotADirectoryError"
                                                     ELSE "IsADirectoryError")
  ELSE IF Front(a) \notin DOMAIN m.fs THEN Raise(m, "FileNotFoundError")
  ELSE IF ~IsDir(m.fs, Front(a)) THEN Raise(m, "NotADirectoryError")
  ELSE [m EXCEPT !.fs = (a :> FileNode(data)) @@ @]

(* The name of a member with its first path segment removed:               *)
(* name.split(os.path.sep, 1)[1], or "." (no segments) when there is none. *)
StripTopdir(name) ==
  IF Len(name) > 1 THEN SubSeq(name, 2, Len(name)) ELSE <<>>

(* TarFile.extract(tar_item, path=pathname) of a member renamed to `name`  *)
(* (<<>> is "."): create the upper directories, then the file or directory *)
Extract(m, pathname, name, item) ==
  LET root   == Resolve(m.cwd, pathname)
      target == root \o name
      upper  == IF name = <<>> THEN root ELSE Front(target)
      m1     == IF upper \notin DOMAIN m.fs THEN MakeDirs(m, upper) ELSE m
  IN
  IF m1.exc # NoExc THEN m1
  ELSE IF ~IsDir(m1.fs, upper) THEN Raise(m1, "NotADirectoryError")
  ELSE IF item.kind = "dir"
    THEN (IF target \in DOMAIN m1.fs THEN m1
          ELSE [m1 EXCEPT !.fs = (target :> DirNode) @@ @])
  ELSE IF IsDir(m1.fs, target) THEN Raise(m1, "IsADirectoryError")
  ELSE [m1 EXCEPT !.fs = (target :> FileNode(item.data)) @@ @]

RECURSIVE ExtractMembers(_, _, _, _)

(* Lines 88-94: every member, top directory removed, extracted in order;   *)
(* the first failure ends the loop.                                        *)
ExtractMembers(m, pathname, members, i) ==
  IF i > Len(members) \/ m.exc # NoExc THEN m
  ELSE ExtractMembers(
         Extract(m, pathname, StripTopdir(members[i].name), members[i]),
         pathname, members, i + 1)


----------------------------------------------------------------------------
(* Collaborators: the persistent storage (STORAGE), the recording switch   *)
(* and the capture of a function's output.                                 *)

(* PersistentObjectStorage.store(keys, values); io_fails is a failure of   *)
(* the storage's own I/O.                                                  *)
StorageStore(m, keys, values, io_fails) ==
  IF ~m.is_write_mode \/ io_fails
    THEN Raise(Logged(m, "store", keys), "StorageIOError")
    ELSE Logged([m EXCEPT !.store = (keys :> values) @@ @], "store", keys)

(* PersistentObjectStorage.read(keys) *)
StorageRead(m, keys) ==
  IF keys \in DOMAIN m.store
    THEN [m |-> Logged(m, "read", keys), value |-> m.store[keys]]
    ELSE [m |-> Raise(Logged(m, "read", keys), "PersistentStorageException"),
          value |-> Blob(<<>>)]

(* The wrapped function: it returns f.ret or raises, and may create a file *)
(* at f.creates.                                                           *)
FuncBody(m, f) ==
  IF f.raises THEN Raise(m, "FuncError")
  ELSE IF f.creates.type = "str" /\ ~Exists(m.fs, m.cwd, f.creates.s)
          /\ IsDir(m.fs, Front(Resolve(m.cwd, f.creates.s)))
    THEN [m EXCEPT !.fs = (Resolve(m.cwd, f.creates.s) :> FileNode("N")) @@ @,
                   !.ret = f.ret]
  ELSE [m EXCEPT !.ret = f.ret]

(* The undecorated call of func with the call's arguments. *)
Func(m, f) == FuncBody(Logged(m, "func", <<>>), f)

(* store_function_output(func) called with the arguments: when writing the *)
(* function                                                                *)
(* runs and its output is recorded; when reading the recorded output is    *)
(* replayed.                                                               *)
store_function_output(m, f) ==
  IF m.is_write_mode
    THEN FuncBody(Logged(m, "store_function_output", <<>>), f)
    ELSE (IF f.raises
            THEN Raise(Logged(m, "store_function_output", <<>>), "FuncError")
            ELSE [Logged(m, "store_function_output", <<>>) EXCEPT !.ret = f.ret])

----------------------------------------------------------------------------
(* StoreFiles *)

(* _test_identifier: os.path.basename(STORAGE.storage_file) *)
test_identifier(m) ==
  IF m.storage_file.type # "str"
    THEN [exc |-> "TypeError", id |-> ""]
    ELSE [exc |-> NoExc, id |-> Basename(m.storage_file.s)]

(* The working directory restored after success only. *)
RestoreCwdOnSuccess(m, original_cwd) ==
  IF m.exc = NoExc THEN [m EXCEPT !.cwd = original_cwd] ELSE m

(* The finally clause of lines 73-74. *)
RestoreCwd(m, original_cwd) == [m EXCEPT !.cwd = original_cwd]

(* Unpack of a directory archive into a target emptied first. *)
UnpackIntoClearedTarget(m, pathname, value) ==
  IF value.compression # tar_compression THEN Raise(m, "ReadError")
  ELSE IF Len(value.members) = 0 THEN Raise(m, "IndexError")
  ELSE IF pathname.type # "str" THEN Raise(m, "TypeError")
  ELSE IF value.members[1].kind = "file"
    THEN WriteFile(m, pathname.s, value.members[1].data)
    ELSE
      LET root == Resolve(m.cwd, pathname.s)
          kept == {a \in DOMAIN m.fs : ~(IsPrefix(root, a) /\ a # root)}
      IN ExtractMembers([m EXCEPT !.fs = [a \in kept |-> m.fs[a]]],
                        pathname.s, value.members, 1)

(* Lines 77-94: restore the archive `value` at pathname. *)
Unpack(m, pathname, value) ==
  IF value.compression # tar_compression THEN Raise(m, "ReadError")
  ELSE IF Len(value.members) = 0 THEN Raise(m, "IndexError")
  ELSE IF pathname.type # "str" THEN Raise(m, "TypeError")
  ELSE IF value.members[1].kind = "file"
    THEN WriteFile(m, pathname.s, value.members[1].data)
    ELSE ExtractMembers(m, pathname.s, value.members, 1)

(* PackAndStore storing under the keys passed, basic_ps_keys left out. *)
PackAndStoreUnderBareKeys(m, pathname, keys, io_fails) ==
  IF pathname.type # "str" THEN Raise(m, "TypeError")
  ELSE
    LET artifact_name == Basename(pathname.s)
        artifact_path == Dirname(pathname.s)
        m1            == Chdir(m, artifact_path)
        added         == AddArtifact(m1, artifact_name)
    IN
    IF m1.exc # NoExc THEN m1
    ELSE IF added.exc # NoExc THEN Raise(m1, added.exc)
    ELSE StorageStore(m1, keys, Blob(added.members), io_fails)

(* Lines 60-72: pack the artifact at pathname and store it. *)
PackAndStore(m, pathname, keys, io_fails) ==
  IF pathname.type # "str" THEN Raise(m, "TypeError")
  ELSE
    LET artifact_name == Basename(pathname.s)
        artifact_path == Dirname(pathname.s)
        m1            == Chdir(m, artifact_path)
        added         == AddArtifact(m1, artifact_name)
    IN
    IF m1.exc # NoExc THEN m1
    ELSE IF added.exc # NoExc THEN Raise(m1, added.exc)
    ELSE StorageStore(m1, basic_ps_keys \o keys, Blob(added.members), io_fails)

(* _copy_logic packing and storing whatever the mode of the storage. *)
copy_logic_always_packs(m, pathname, keys, io_fails) ==
  RestoreCwd(PackAndStore(m, pathname, keys, io_fails), m.cwd)

(* _copy_logic(pers_storage, pathname, keys) *)
copy_logic(m, pathname, keys, io_fails) ==
  LET original_cwd == m.cwd IN
  IF m.is_write_mode
    THEN RestoreCwd(PackAndStore(m, pathname, keys, io_fails), original_cwd)
    ELSE
      LET r == StorageRead(m, basic_ps_keys \o keys) IN
      IF r.m.exc # NoExc THEN r.m ELSE Unpack(r.m, pathname, r.value)

(* A decorator's call cls._copy_logic(STORAGE, pathname=..., keys=...). *)
CallCopyLogic(m, arg, pathname, keys, io_fails) ==
  copy_logic([m EXCEPT !.log = Append(@, Event("copy_logic", keys, pathname, arg))],
             pathname, keys, io_fails)


(* return_value capturing when the storage is written and doing nothing   *)
(* more when it is read.                                                   *)
return_value_write_only(m, f, io_fails) ==
  IF ~m.recording THEN Func(m, f)
  ELSE
    LET output == store_function_output(m, f)
        tid    == test_identifier(output)
    IN
    IF output.exc # NoExc \/ ~m.is_write_mode THEN output
    ELSE IF tid.exc # NoExc THEN Raise(output, tid.exc)
    ELSE CallCopyLogic(output, "return", output.ret,
                       <<KStr(cls_name), KStr(tid.id)>>, io_fails)

(* StoreFiles.return_value(func), called *)
return_value(m, f, io_fails) ==
  IF ~m.recording THEN Func(m, f)
  ELSE
    LET output == store_function_output(m, f)
        tid    == test_identifier(output)
    IN
    IF output.exc # NoExc THEN output
    ELSE IF tid.exc # NoExc THEN Raise(output, tid.exc)
    ELSE CallCopyLogic(output, "return", output.ret,
                       <<KStr(cls_name), KStr(tid.id)>>, io_fails)

ArgName(position) == <<"0", "1", "2", "3">>[position + 1]

(* The arguments guess_args scans, in order: positional ones under their   *)
(* zero-based position, then keyword ones under their name.                *)
ScannedArgs(call) ==
  [i \in 1..Len(call.args) |->
     [name |-> ArgName(i - 1), key |-> KInt(i - 1), value |-> call.args[i]]]
  \o [j \in 1..Len(call.kwargs) |->
        [name |-> "=" \o call.kwargs[j].k, key |-> KStr(call.kwargs[j].k),
         value |-> call.kwargs[j].v]]

(* GuessOne letting the store's not-found error through. *)
GuessOneStrict(m, class_test_id_list, arg, io_fails) ==
  IF arg.value.type # "str" THEN m
  ELSE
    LET keys == class_test_id_list \o <<arg.key>> IN
    IF m.is_write_mode
      THEN (IF Exists(m.fs, m.cwd, arg.value.s)
              THEN CallCopyLogic(m, arg.name, arg.value, keys, io_fails)
              ELSE m)
      ELSE CallCopyLogic(m, arg.name, arg.value, keys, io_fails)

(* GuessOne with the key ending in the name of the path passed instead of  *)
(* the argument's position or name.                                        *)
GuessOneKeyedByPath(m, class_test_id_list, arg, io_fails) ==
  IF arg.value.type # "str" THEN m
  ELSE
    LET keys == class_test_id_list \o <<KStr(Basename(arg.value.s))>> IN
    IF m.is_write_mode
      THEN (IF Exists(m.fs, m.cwd, arg.value.s)
              THEN CallCopyLogic(m, arg.name, arg.value, keys, io_fails)
              ELSE m)
      ELSE
        LET r == CallCopyLogic(m, arg.name, arg.value, keys, io_fails) IN
        IF r.exc = "PersistentStorageException" THEN Raise(r, NoExc) ELSE r

(* Lines 133-142 and 144-153: one argument of the scan. *)
GuessOne(m, class_test_id_list, arg, io_fails) ==
  IF arg.value.type # "str" THEN m
  ELSE
    LET keys == class_test_id_list \o <<arg.key>> IN
    IF m.is_write_mode
      THEN (IF Exists(m.fs, m.cwd, arg.value.s)
              THEN CallCopyLogic(m, arg.name, arg.value, keys, io_fails)
              ELSE m)
      ELSE
        LET r == CallCopyLogic(m, arg.name, arg.value, keys, io_fails) IN
        IF r.exc = "PersistentStorageException" THEN Raise(r, NoExc) ELSE r

RECURSIVE GuessLoop(_, _, _, _, _)

GuessLoop(m, class_test_id_list, scanned, i, io_fails) ==
  IF i > Len(scanned) \/ m.exc # NoExc THEN m
  ELSE GuessLoop(GuessOne(m, class_test_id_list, scanned[i], io_fails),
                 class_test_id_list, scanned, i + 1, io_fails)

(* StoreFiles.guess_args(func), called *)
guess_args(m, f, call, io_fails) ==
  LET tid == test_identifier(m) IN
  IF tid.exc # NoExc THEN Raise(m, tid.exc)
  ELSE IF ~m.recording THEN Func(m, f)
  ELSE
    LET output == store_function_output(m, f) IN
    IF output.exc # NoExc THEN output
    ELSE GuessLoop(output, <<KStr(cls_name), KStr(tid.id)>>,
                   ScannedArgs(call), 1, io_fails)

HasKwarg(call, key) == \E j \in 1..Len(call.kwargs) : call.kwargs[j].k = key

Kwarg(call, key) ==
  call.kwargs[CHOOSE j \in 1..Len(call.kwargs) : call.kwargs[j].k = key].v

(* ReferenceOne tolerating an artifact that is not in the store, the way   *)
(* guess_args does.                                                        *)
ReferenceOneTolerant(m, class_test_id_list, call, entry, io_fails) ==
  IF ~HasKwarg(call, entry.key) /\ entry.position >= Len(call.args)
    THEN Raise(m, "IndexError")
    ELSE
      LET param == IF HasKwarg(call, entry.key)
                     THEN Kwarg(call, entry.key)
                     ELSE call.args[entry.position + 1]
          r == CallCopyLogic(m, "=" \o entry.key, param,
                             class_test_id_list \o <<KStr(entry.key)>>, io_fails)
      IN IF r.exc = "PersistentStorageException" THEN Raise(r, NoExc) ELSE r

(* ReferenceOne taking the positional argument where there is one and the  *)
(* keyword argument only otherwise.                                        *)
ReferenceOnePositionFirst(m, class_test_id_list, call, entry, io_fails) ==
  IF ~HasKwarg(call, entry.key) /\ entry.position >= Len(call.args)
    THEN Raise(m, "IndexError")
    ELSE
      LET param == IF entry.position < Len(call.args)
                     THEN call.args[entry.position + 1]
                     ELSE Kwarg(call, entry.key)
      IN CallCopyLogic(m, "=" \o entry.key, param,
                       class_test_id_list \o <<KStr(entry.key)>>, io_fails)

(* Lines 176-182: one entry of files_params. *)
ReferenceOne(m, class_test_id_list, call, entry, io_fails) ==
  IF ~HasKwarg(call, entry.key) /\ entry.position >= Len(call.args)
    THEN Raise(m, "IndexError")
    ELSE
      LET param == IF HasKwarg(call, entry.key)
                     THEN Kwarg(call, entry.key)
                     ELSE call.args[entry.position + 1]
      IN CallCopyLogic(m, "=" \o entry.key, param,
                       class_test_id_list \o <<KStr(entry.key)>>, io_fails)

RECURSIVE ReferenceLoop(_, _, _, _, _, _)

ReferenceLoop(m, class_test_id_list, call, files_params, i, io_fails) ==
  IF i > Len(files_params) \/ m.exc # NoExc THEN m
  ELSE ReferenceLoop(
         ReferenceOne(m, class_test_id_list, call, files_params[i], io_fails),
         class_test_id_list, call, files_params, i + 1, io_fails)

(* StoreFiles.arg_references(files_params)(func), called *)
arg_references(m, files_params, f, call, io_fails) ==
  LET tid == test_identifier(m) IN
  IF tid.exc # NoExc THEN Raise(m, tid.exc)
  ELSE IF ~m.recording THEN Func(m, f)
  ELSE
    LET output == store_function_output(m, f) IN
    IF output.exc # NoExc THEN output
    ELSE ReferenceLoop(output, <<KStr(cls_name), KStr(tid.id)>>,
                       call, files_params, 1, io_fails)


----------------------------------------------------------------------------
(* The process and the test that drives it *)

(* The files the test starts with: /w/src_dir with a.txt and b/c.txt, and  *)
(* /w/t with f.txt and the empty directory e; the process runs in /w.      *)
InitFs ==
  (<<>> :> DirNode) @@ (<<"w">> :> DirNode)
  @@ (<<"w", "src_dir">> :> DirNode)
  @@ (<<"w", "src_dir", "a.txt">> :> FileNode("A"))
  @@ (<<"w", "src_dir", "b">> :> DirNode)
  @@ (<<"w", "src_dir", "b", "c.txt">> :> FileNode("C"))
  @@ (<<"w", "t">> :> DirNode)
  @@ (<<"w", "t", "f.txt">> :> FileNode("F"))
  @@ (<<"w", "t", "e">> :> DirNode)

InitCwd == <<"w">>

EmptyStore == [k \in {} |-> Blob(<<>>)]

(* The storage files of the tests; a storage file holds its own records.   *)
test1 == VStr(Abs(<<"r1", "test1">>))

test1_elsewhere == VStr(Abs(<<"r2", "test1">>))

test2 == VStr(Rel(<<"test2">>))

StorageFiles == {VNone, test1, test1_elsewhere, test2}

NoCall == [args |-> <<>>, kwargs |-> <<>>]

NoFunc == [ret |-> VNone, raises |-> FALSE, creates |-> VNone]

Idle ==
  [op |-> "idle", call |-> NoCall, f |-> NoFunc, files_params |-> <<>>,
   pathname |-> VNone, keys |-> <<>>, io_fails |-> FALSE,
   fs0 |-> InitFs, cwd0 |-> InitCwd, store0 |-> EmptyStore,
   log |-> <<>>, exc |-> NoExc, ret |-> VNone]

(* What is recorded in the storage file in use. *)
Store == storage[storage_file]

(* The process as a call finds it. *)
Process ==
  [fs |-> fs, cwd |-> cwd, store |-> Store, is_write_mode |-> is_write_mode,
   storage_file |-> storage_file, recording |-> recording,
   log |-> <<>>, exc |-> NoExc, ret |-> VNone]

Init ==
  /\ fs = InitFs
  /\ cwd = InitCwd
  /\ storage = [file \in StorageFiles |-> EmptyStore]
  /\ is_write_mode = TRUE
  /\ storage_file = VNone
  /\ recording = FALSE
  /\ last = Idle
  /\ keys_used = {}
  /\ ncalls = 0

(* The file or directory tree at a path, as its entries in order with      *)
(* their paths relative to it; nothing when the path names nothing.        *)
Artifact(m, pathname) ==
  IF pathname.type = "str" /\ Exists(m.fs, m.cwd, pathname.s)
    THEN TarAdd(m.fs, Resolve(m.cwd, pathname.s), <<>>)
    ELSE <<>>

(* What a call's _copy_logic calls used as keys, with what they were made  *)
(* for.                                                                    *)
KeyUses(op, m, io_fails) ==
  {[variant |-> op,
    io_fails |-> io_fails,
    test |-> IF m.storage_file.type = "str" THEN Basename(m.storage_file.s) ELSE "",
    dir |-> IF m.storage_file.type = "str" THEN Dirname(m.storage_file.s) ELSE EmptyStr,
    write |-> m.is_write_mode,
    arg |-> m.log[i].arg,
    pathname |-> m.log[i].pathname,
    artifact |-> IF m.is_write_mode THEN Artifact(m, m.log[i].pathname) ELSE <<>>,
    keys |-> m.log[i].keys] : i \in {j \in 1..Len(m.log) : m.log[j].op = "copy_logic"}}

(* A call of the code: `m` is the process it leaves behind.  A failure of  *)
(* the storage's I/O is considered where the storage is written.  With     *)
(* `track` the keys the call used are added to keys_used.                  *)
Called(op, call, f, files_params, pathname, keys, io_fails, track, m) ==
  /\ last.op = "idle"
  /\ ncalls < MaxCalls
  /\ io_fails => is_write_mode /\ (recording \/ op = "copy_logic")
  /\ fs' = m.fs
  /\ cwd' = m.cwd
  /\ storage' = [storage EXCEPT ![storage_file] = m.store]
  /\ is_write_mode' = m.is_write_mode
  /\ storage_file' = m.storage_file
  /\ recording' = m.recording
  /\ last' = [op |-> op, call |-> call, f |-> f, files_params |-> files_params,
              pathname |-> pathname, keys |-> keys, io_fails |-> io_fails,
              fs0 |-> fs, cwd0 |-> cwd, store0 |-> Store,
              log |-> m.log, exc |-> m.exc,
              ret |-> IF m.exc = NoExc THEN m.ret ELSE VNone]
  /\ keys_used' = IF track THEN keys_used \cup KeyUses(op, m, io_fails) ELSE keys_used
  /\ ncalls' = ncalls + 1

CallReturnValue(Funcs, Faults, track) ==
  \E f \in Funcs, io_fails \in Faults :
    Called("return_value", NoCall, f, <<>>, VNone, <<>>, io_fails, track,
           return_value(Process, f, io_fails))

CallGuessArgs(Calls, Funcs, Faults, track) ==
  \E call \in Calls, f \in Funcs, io_fails \in Faults :
    Called("guess_args", call, f, <<>>, VNone, <<>>, io_fails, track,
           guess_args(Process, f, call, io_fails))

CallArgReferences(Params, Calls, Funcs, Faults, track) ==
  \E files_params \in Params, call \in Calls, f \in Funcs,
     io_fails \in Faults :
    Called("arg_references", call, f, files_params, VNone, <<>>, io_fails, track,
           arg_references(Process, files_params, f, call, io_fails))

CallCopyLogicDirectly(Paths, Keys, Faults, track) ==
  \E pathname \in Paths, keys \in Keys, io_fails \in Faults :
    Called("copy_logic", NoCall, NoFunc, <<>>, pathname, keys, io_fails, track,
           CallCopyLogic(Process, "", pathname, keys, io_fails))

(* The test takes the outcome of the call. *)
Returned ==
  /\ last.op # "idle"
  /\ last' = Idle
  /\ UNCHANGED <<fs, cwd, storage, is_write_mode, storage_file, recording,
                 keys_used, ncalls>>

(* Between calls the test switches recording, the storage's mode and the   *)
(* storage file.                                                           *)
SetRecording ==
  /\ last.op = "idle"
  /\ recording' = ~recording
  /\ UNCHANGED <<fs, cwd, storage, is_write_mode, storage_file, last,
                 keys_used, ncalls>>

SetWriteMode ==
  /\ last.op = "idle"
  /\ is_write_mode' = ~is_write_mode
  /\ UNCHANGED <<fs, cwd, storage, recording, storage_file, last,
                 keys_used, ncalls>>

SetStorageFile(Files) ==
  /\ last.op = "idle"
  /\ \E file \in Files : storage_file' = file /\ file # storage_file
  /\ UNCHANGED <<fs, cwd, storage, recording, is_write_mode, last,
                 keys_used, ncalls>>


----------------------------------------------------------------------------
(* The inputs of the calls *)

src_dir == VStr(Rel(<<"src_dir">>))

abs_src_dir == VStr(Abs(<<"w", "src_dir">>))

dst_dir == VStr(Rel(<<"dst_dir">>))

f_txt == VStr(Rel(<<"t", "f.txt">>))

g_txt == VStr(Abs(<<"w", "t", "g.txt">>))

e_dir == VStr(Rel(<<"t", "e">>))

abs_src_dir_slash == VStr(Slash(Abs(<<"w", "src_dir">>)))

KwNames == {"target"}

(* Calls passing at most MaxArgs arguments, at most one of them by keyword *)
MaxArgs == 2

SeqsUpTo(S, n) == UNION {[1..k -> S] : k \in 0..n}

CallsOver(V, KV) ==
  {[args |-> a, kwargs |-> <<>>] : a \in SeqsUpTo(V, MaxArgs)}
  \cup {[args |-> a, kwargs |-> <<[k |-> name, v |-> value]>>] :
          a \in SeqsUpTo(V, MaxArgs - 1), name \in KwNames, value \in KV}

FuncsOver(Rets, Creates) ==
  {[ret |-> VNone, raises |-> TRUE, creates |-> VNone]}
  \cup {[ret |-> r, raises |-> FALSE, creates |-> c] : r \in Rets, c \in Creates}

FilesParams ==
  {<<[key |-> "target", position |-> 0]>>,
   <<[key |-> "target", position |-> 1]>>,
   <<[key |-> "source", position |-> 0], [key |-> "target", position |-> 1]>>}

----------------------------------------------------------------------------
(* return_value and guess_args driven by a test *)

Values == {src_dir, abs_src_dir, dst_dir, f_txt}

KwValues == {VNone, abs_src_dir}

Next ==
  \/ CallReturnValue(FuncsOver({VNone, abs_src_dir, dst_dir}, {VNone}),
                     BOOLEAN, FALSE)
  \/ CallGuessArgs(CallsOver(Values, KwValues), FuncsOver({dst_dir}, {VNone}),
                   BOOLEAN, FALSE)
  \/ Returned
  \/ SetRecording
  \/ SetWriteMode
  \/ SetStorageFile({VNone, test1})

Spec == Init /\ [][Next]_vars


(* arg_references driven by a test *)

RefValues == {src_dir, abs_src_dir, f_txt, g_txt}

NextRefs ==
  \/ CallArgReferences(FilesParams, CallsOver(RefValues, RefValues),
                       FuncsOver({dst_dir}, {VNone}), {FALSE}, FALSE)
  \/ CallCopyLogicDirectly({g_txt, dst_dir}, {<<KStr("k1")>>}, {FALSE}, FALSE)
  \/ Returned
  \/ SetRecording
  \/ SetWriteMode
  \/ SetStorageFile({VNone, test1})

SpecRefs == Init /\ [][NextRefs]_vars

----------------------------------------------------------------------------
(* What the claims speak of *)

Decorators == {"return_value", "guess_args", "arg_references"}

(* The process as the last call found it. *)
Before ==
  [fs |-> last.fs0, cwd |-> last.cwd0, store |-> last.store0,
   is_write_mode |-> is_write_mode, storage_file |-> storage_file,
   recording |-> recording, log |-> <<>>, exc |-> NoExc, ret |-> VNone]

(* The events of the last call that are calls of `op`. *)
Events(op) == {i \in 1..Len(last.log) : last.log[i].op = op}

StoreInteractions == Events("store") \cup Events("read")

(* The outcome of the undecorated function on the process the last call    *)
(* found.                                                                  *)
Undecorated == Func(Before, last.f)

----------------------------------------------------------------------------
(* C1: with recording off a decorated call has the outcome of the          *)
(* undecorated function (same return value or error, the function invoked  *)
(* once, same files), whatever the state of the store, its storage_file    *)
(* unset included, and makes no call on the store.                         *)
C1_ModeGating ==
  (last.op \in Decorators /\ ~recording) =>
    /\ last.exc = Undecorated.exc
    /\ last.exc = NoExc => last.ret = Undecorated.ret
    /\ Cardinality(Events("func")) = 1
    /\ StoreInteractions = {}
    /\ fs = Undecorated.fs
    /\ cwd = last.cwd0
    /\ Store = last.store0


----------------------------------------------------------------------------
(* A record pass and a replay pass of tests, the keys used remembered *)

PassValues == {src_dir, abs_src_dir, dst_dir}

(* f(path) and f(target=path) *)
PassCalls ==
  {[args |-> <<v>>, kwargs |-> <<>>] : v \in PassValues}
  \cup {[args |-> <<>>, kwargs |-> <<[k |-> "target", v |-> v]>>] : v \in PassValues}

(* Functions that return a path and do nothing else. *)
Returning(Rets) == {[ret |-> r, raises |-> FALSE, creates |-> VNone] : r \in Rets}

NextPasses ==
  \/ CallReturnValue(Returning({abs_src_dir, dst_dir}), {FALSE}, TRUE)
  \/ CallGuessArgs(PassCalls, Returning({dst_dir}), {FALSE}, TRUE)
  \/ CallArgReferences({<<[key |-> "target", position |-> 0]>>},
                       PassCalls, Returning({dst_dir}), {FALSE}, TRUE)
  \/ Returned
  \/ SetRecording
  \/ SetWriteMode
  \/ SetStorageFile({test1, test1_elsewhere, test2})

SpecPasses == Init /\ [][NextPasses]_vars


----------------------------------------------------------------------------
(* Record pass, then replay pass *)

(* A use of a key made with the storage file now in use. *)
InThisStorageFile(u) ==
  /\ storage_file.type = "str"
  /\ u.test = Basename(storage_file.s)
  /\ u.dir = Dirname(storage_file.s)

(* The one capture, in write mode, of the argument `u.arg` of the          *)
(* decorator `u.variant` in this storage file.                             *)
TheRecord(u) ==
  /\ u \in keys_used
  /\ u.write
  /\ InThisStorageFile(u)
  /\ \A v \in keys_used :
       (v.write /\ InThisStorageFile(v) /\ v.keys = u.keys) => v = u

(* The artifact is a directory holding a.txt and b/c.txt. *)
HoldsScenarioFiles(artifact) ==
  /\ Len(artifact) > 0
  /\ artifact[1].kind = "dir"
  /\ \E k \in 1..Len(artifact) :
       artifact[k].name = <<"a.txt">> /\ artifact[k].kind = "file"
  /\ \E k \in 1..Len(artifact) :
       artifact[k].name = <<"b", "c.txt">> /\ artifact[k].kind = "file"

(* Every entry of the artifact is at the path with its kind and bytes. *)
ReproducedAt(artifact, pathname) ==
  \A k \in 1..Len(artifact) :
    LET a == Resolve(cwd, pathname.s) \o artifact[k].name IN
    a \in DOMAIN fs /\ fs[a].kind = artifact[k].kind /\ fs[a].data = artifact[k].data

(* The path holds no entry named after the recorded path that the artifact *)
(* does not hold and that was not there before the call.                   *)
NoWrapperDirectory(recorded, artifact, pathname) ==
  LET a == Append(Resolve(cwd, pathname.s), Basename(recorded.s)) IN
  a \in DOMAIN fs =>
    \/ a \in DOMAIN last.fs0
    \/ \E k \in 1..Len(artifact) : artifact[k].name = <<Basename(recorded.s)>>

(* C2: f called in recording+write mode with a path P of a directory       *)
(* holding a.txt and b/c.txt, then, with the same storage file, in         *)
(* recording+read mode with another path Q in the same parameter: after    *)
(* the replay Q/a.txt and Q/b/c.txt exist with the recorded bytes and Q    *)
(* holds no wrapper directory named after P.                               *)
C2_RecordThenReplay ==
  \A u \in keys_used : \A i \in Events("copy_logic") :
    ( /\ last.op \in {"guess_args", "arg_references"}
      /\ recording /\ ~is_write_mode
      /\ u.variant = last.op
      /\ TheRecord(u)
      /\ HoldsScenarioFiles(u.artifact)
      /\ last.log[i].arg = u.arg
      /\ last.log[i].pathname # u.pathname )
    => /\ ReproducedAt(u.artifact, last.log[i].pathname)
       /\ NoWrapperDirectory(u.pathname, u.artifact, last.log[i].pathname)


(* C10: the keys of an artifact are a function of the decorator, the base  *)
(* name of the storage file and the argument's name or position alone:     *)
(* any two captures agreeing on these three used the same keys, whatever   *)
(* the paths passed, the write or read mode and the directory of the       *)
(* storage file.                                                           *)
C10_KeyDeterminism ==
  \A u, v \in keys_used :
    (u.variant = v.variant /\ u.test = v.test /\ u.arg = v.arg) => u.keys = v.keys

(* A record and a replay of the same argument with different paths, the    *)
(* storage file in another directory.                                      *)
C10_Witness ==
  \E u, v \in keys_used :
    /\ u.variant = v.variant /\ u.test = v.test /\ u.arg = v.arg
    /\ u.write /\ ~v.write
    /\ u.pathname # v.pathname
    /\ u.dir # v.dir
    /\ last.op = v.variant /\ InThisStorageFile(v)


----------------------------------------------------------------------------
(* _copy_logic called on its own *)

CodecPaths == {src_dir, abs_src_dir, abs_src_dir_slash, f_txt, e_dir, g_txt, dst_dir}

CodecKeys == {<<KStr("k1")>>, <<KStr("k2")>>}

NextCodec ==
  \/ CallCopyLogicDirectly(CodecPaths, CodecKeys, BOOLEAN, TRUE)
  \/ Returned
  \/ SetWriteMode

SpecCodec == Init /\ [][NextCodec]_vars

(* The one pack under its keys. *)
TheOnlyPack(u) ==
  /\ u \in keys_used
  /\ u.variant = "copy_logic"
  /\ u.write
  /\ ~u.io_fails
  /\ \A v \in keys_used : (v.write /\ v.keys = u.keys) => v = u

(* A path that names nothing yet in a directory that exists. *)
FreshTarget(pathname) ==
  /\ pathname.type = "str"
  /\ ~pathname.s.slash
  /\ pathname.s.segs # <<>>
  /\ Resolve(last.cwd0, pathname.s) \notin DOMAIN last.fs0
  /\ IsDir(last.fs0, Front(Resolve(last.cwd0, pathname.s)))

(* C3: _copy_logic in write mode on the path of a file or directory tree F *)
(* and then in read mode with the same keys on a target path reproduces F  *)
(* at the target: a file with the same bytes, or the same relative paths   *)
(* with the same contents, the top directory's name removed.               *)
C3_RoundTrip ==
  \A u \in keys_used :
    ( /\ last.op = "copy_logic" /\ ~is_write_mode
      /\ TheOnlyPack(u)
      /\ u.artifact # <<>>
      /\ last.keys = u.keys
      /\ FreshTarget(last.pathname) )
    => /\ last.exc = NoExc
       /\ Artifact(Process, last.pathname) = u.artifact

(* The body of the try statement of the last call. *)
TryBody == PackAndStore(Before, last.pathname, last.keys, last.io_fails)

(* C4: after every call of _copy_logic, normal or failed at any step, the  *)
(* working directory is the one the call started in, and the error that    *)
(* reaches the caller is the failure of the step that failed.              *)
C4_CwdRestored ==
  last.op = "copy_logic" =>
    /\ cwd = last.cwd0
    /\ is_write_mode => last.exc = TryBody.exc

(* A pack that failed after it had changed the working directory. *)
C4_Witness ==
  /\ last.op = "copy_logic" /\ is_write_mode
  /\ last.exc # NoExc
  /\ TryBody.cwd # last.cwd0
  /\ cwd = last.cwd0


----------------------------------------------------------------------------
(* arg_references *)

(* The keys under which the store holds the artifact of a declared name. *)
DeclaredKeys(name) ==
  basic_ps_keys \o <<KStr("StoreFiles"), KStr(Basename(storage_file.s)), KStr(name)>>

Declared == {last.files_params[i] : i \in 1..Len(last.files_params)}

(* The call passed the declared parameter by keyword or at its position. *)
Passed(entry) ==
  HasKwarg(last.call, entry.key) \/ entry.position < Len(last.call.args)

(* A replay through arg_references with a declared entry that is not in    *)
(* the store.                                                              *)
ReplayWithMissingEntry ==
  /\ last.op = "arg_references"
  /\ recording /\ ~is_write_mode
  /\ storage_file.type = "str"
  /\ \E entry \in Declared : DeclaredKeys(entry.key) \notin DOMAIN last.store0

(* C6 as claimed: such a replay, the wrapped call's own replay succeeding, *)
(* raises the store's not-found error.                                     *)
C6_MissingRaisesNotFound ==
  (ReplayWithMissingEntry /\ ~last.f.raises) =>
    last.exc = "PersistentStorageException"

(* C6, amended: such a replay never returns normally; it raises the        *)
(* store's not-found error unless an earlier step failed first: the        *)
(* replay of the wrapped call, the resolution of a declared parameter      *)
(* passed neither by keyword nor at its position (IndexError), or the      *)
(* restore of a declared entry that is in the store.                       *)
C6_MissingNeverReturns ==
  ReplayWithMissingEntry =>
    /\ last.exc # NoExc
    /\ last.exc = "FuncError" => last.f.raises
    /\ last.exc = "IndexError" => \E entry \in Declared : ~Passed(entry)
    /\ last.exc \notin {"FuncError", "IndexError", "PersistentStorageException"} =>
         \E i \in Events("read") : last.log[i].keys \in DOMAIN last.store0

(* One declared entry restored, the next one missing: not-found raised. *)
C6_Witness ==
  /\ ReplayWithMissingEntry
  /\ last.exc = "PersistentStorageException"
  /\ \E i \in Events("read") : last.log[i].keys \in DOMAIN last.store0

(* C7: in write mode a path passed to _copy_logic (directly or for an      *)
(* entry declared through arg_references) that does not exist makes the    *)
(* call fail with an error reaching the caller, and store() is not called  *)
(* for its keys: the store holds no archive for it that it did not hold.   *)
C7_MissingPathFailsLoudly ==
  \A i \in Events("copy_logic") :
    ( /\ last.op \in {"copy_logic", "arg_references"}
      /\ is_write_mode
      /\ last.log[i].pathname.type = "str"
      /\ ~Exists(fs, last.cwd0, last.log[i].pathname.s) )
    => /\ last.exc # NoExc
       /\ \A j \in Events("store") :
            last.log[j].keys # basic_ps_keys \o last.log[i].keys
       /\ \/ basic_ps_keys \o last.log[i].keys \notin DOMAIN Store
          \/ /\ basic_ps_keys \o last.log[i].keys \in DOMAIN last.store0
             /\ Store[basic_ps_keys \o last.log[i].keys]
                  = last.store0[basic_ps_keys \o last.log[i].keys]

(* A declared path that does not exist in a directory that does: the call  *)
(* fails where the artifact is added.                                      *)
C7_Witness ==
  /\ last.op = "arg_references" /\ is_write_mode /\ recording
  /\ last.exc = "FileNotFoundError"
  /\ \E i \in Events("copy_logic") :
       /\ last.log[i].pathname.type = "str"
       /\ ~Exists(fs, last.cwd0, last.log[i].pathname.s)
       /\ Exists(fs, last.cwd0, Dirname(last.log[i].pathname.s))


----------------------------------------------------------------------------
(* guess_args and return_value *)

(* The archive is restored at the path: its file with its bytes, or every  *)
(* member below the top directory with its kind and bytes.                 *)
RestoredAt(value, pathname) ==
  LET root == Resolve(cwd, pathname.s) IN
  IF value.members[1].kind = "file"
    THEN IsFile(fs, root) /\ fs[root].data = value.members[1].data
    ELSE \A k \in 1..Len(value.members) :
           LET name == value.members[k].name
               a    == root \o SubSeq(name, 2, Len(name))
           IN a \in DOMAIN fs /\ fs[a].kind = value.members[k].kind
                              /\ fs[a].data = value.members[k].data

(* The keys of the store for an argument of a guess_args call. *)
GuessKeys(key) ==
  basic_ps_keys \o <<KStr("StoreFiles"), KStr(Basename(storage_file.s)), key>>

Scanned == ScannedArgs(last.call)

(* The string arguments of the last call with an artifact in the store,    *)
(* and those without.                                                      *)
RecordedArgs ==
  {k \in 1..Len(Scanned) :
     Scanned[k].value.type = "str" /\ GuessKeys(Scanned[k].key) \in DOMAIN last.store0}

UnrecordedArgs ==
  {k \in 1..Len(Scanned) :
     Scanned[k].value.type = "str" /\ GuessKeys(Scanned[k].key) \notin DOMAIN last.store0}

ReplayThroughGuessArgs ==
  /\ last.op = "guess_args"
  /\ recording /\ ~is_write_mode
  /\ storage_file.type = "str"
  /\ ~last.f.raises

ReplayThroughReturnValue ==
  /\ last.op = "return_value"
  /\ recording /\ ~is_write_mode

ReturnKeys ==
  basic_ps_keys \o <<KStr("StoreFiles"), KStr(Basename(storage_file.s))>>

(* C8 as claimed: replaying a return_value call makes no read() on the     *)
(* store and writes nothing to the filesystem.                             *)
C8_NoExtractionOnReplay ==
  ReplayThroughReturnValue => (Events("read") = {} /\ fs = last.fs0)

(* C8, amended: replaying a return_value call whose return value is        *)
(* replayed makes one read() on the store, under the keys of the decorator *)
(* and the test; an archive found there is extracted at the returned path  *)
(* and the value is returned; when none is found the store's not-found     *)
(* error reaches the caller and nothing is written.                        *)
C8_ReplayRestoresReturnedPath ==
  (ReplayThroughReturnValue /\ ~last.f.raises /\ storage_file.type = "str") =>
    /\ Cardinality(Events("read")) = 1
    /\ \A i \in Events("read") : last.log[i].keys = ReturnKeys
    /\ ReturnKeys \notin DOMAIN last.store0 =>
         (last.exc = "PersistentStorageException" /\ fs = last.fs0)
    /\ (ReturnKeys \in DOMAIN last.store0 /\ last.exc = NoExc) =>
         /\ last.ret = last.f.ret
         /\ RestoredAt(last.store0[ReturnKeys], last.f.ret)

(* A replay that restored the recorded directory at a returned path that   *)
(* did not exist.                                                          *)
C8_Witness ==
  /\ ReplayThroughReturnValue
  /\ last.exc = NoExc
  /\ ReturnKeys \in DOMAIN last.store0
  /\ last.f.ret.type = "str"
  /\ Resolve(cwd, last.f.ret.s) \notin DOMAIN last.fs0
  /\ RestoredAt(last.store0[ReturnKeys], last.f.ret)

(* f(P) through guess_args in recording+write mode, the storage file named *)
(* test1, P an existing directory, no failure of the function or storage.  *)
RecordOfOneDirectory(P) ==
  /\ last.op = "guess_args"
  /\ recording /\ is_write_mode
  /\ storage_file.type = "str" /\ Basename(storage_file.s) = "test1"
  /\ last.call = [args |-> <<P>>, kwargs |-> <<>>]
  /\ P.type = "str" /\ IsDir(fs, Resolve(last.cwd0, P.s))
  /\ ~last.f.raises /\ ~last.io_fails

----------------------------------------------------------------------------
(* Keys, packing and the mode of the store *)

(* C11: with one storage file, captures made through different decorators  *)
(* never use the same keys, and two arguments captured in one decorated    *)
(* call never use the same keys.                                           *)
C11_KeysDistinct ==
  /\ \A u, v \in keys_used :
       ( /\ u.write /\ v.write
         /\ u.test = v.test /\ u.dir = v.dir
         /\ u.variant # v.variant )
       => u.keys # v.keys
  /\ \A i, j \in Events("copy_logic") :
       i # j => last.log[i].keys # last.log[j].keys

(* C12: _copy_logic in write mode on a path that names an existing file or *)
(* directory, relative or absolute, a bare name included, succeeds and     *)
(* stores one archive under its keys.                                      *)
C12_PackAcceptsRelativePaths ==
  ( /\ last.op = "copy_logic"
    /\ is_write_mode /\ ~last.io_fails
    /\ last.pathname.type = "str" /\ ~last.pathname.s.slash
    /\ Exists(last.fs0, last.cwd0, last.pathname.s) )
  => /\ last.exc = NoExc
     /\ Cardinality(Events("store")) = 1
     /\ basic_ps_keys \o last.keys \in DOMAIN Store

(* C13: store() is called only while the store is in write mode and read() *)
(* only while it is not, and no call of the code changes the store's mode  *)
(* or the recording switch.                                                *)
C13_ModeDiscipline ==
  /\ [](Events("store") # {} => is_write_mode)
  /\ [](Events("read") # {} => ~is_write_mode)
  /\ [][(last.op = "idle" /\ last'.op # "idle")
          => (is_write_mode' = is_write_mode /\ recording' = recording)]_vars

(* A replay through a decorator that read a store written before. *)
C13_Witness ==
  /\ last.op \in Decorators
  /\ Events("read") # {}
  /\ Events("store") = {}
  /\ last.store0 # EmptyStore


----------------------------------------------------------------------------
(* The steps of one decorated call *)

(* The steps of the last call that handle an artifact. *)
ArtifactSteps ==
  {j \in 1..Len(last.log) : last.log[j].op \in {"copy_logic", "store", "read"}}

(* C14: in recording mode a decorated call invokes the wrapped function    *)
(* through store_function_output exactly once, before any pack, store(),   *)
(* read() or extraction of the call; when the invocation raises, the error *)
(* reaches the caller and the call stores and restores nothing; the value  *)
(* returned is the value of the invocation.                                *)
C14_PerCallOrdering ==
  (last.op \in Decorators /\ recording) =>
    /\ Cardinality(Events("store_function_output")) = 1
    /\ \A i \in Events("store_function_output") : \A j \in ArtifactSteps : i < j
    /\ last.f.raises =>
         /\ last.exc = "FuncError"
         /\ ArtifactSteps = {}
         /\ Store = last.store0
         /\ fs = last.fs0
    /\ last.exc = NoExc => last.ret = last.f.ret

(* C15: a guess_args call in recording+write mode, the function and the    *)
(* storage not failing, ends without an error and has made a store() call  *)
(* for an argument, under the keys ending in its position or its name,     *)
(* exactly when the argument is a string naming an existing entry after    *)
(* the function has run.                                                   *)
C15_WriteScan ==
  ( /\ last.op = "guess_args"
    /\ recording /\ is_write_mode
    /\ storage_file.type = "str"
    /\ ~last.f.raises /\ ~last.io_fails )
  => /\ last.exc = NoExc
     /\ \A k \in 1..Len(Scanned) :
          (\E i \in Events("store") : last.log[i].keys = GuessKeys(Scanned[k].key))
          <=> ( /\ Scanned[k].value.type = "str"
                /\ Exists(fs, last.cwd0, Scanned[k].value.s) )
     /\ \A i \in Events("store") :
          \E k \in 1..Len(Scanned) : last.log[i].keys = GuessKeys(Scanned[k].key)


----------------------------------------------------------------------------
(* The entries arg_references declares *)

(* The value the last call passed for a declared entry: by keyword, else   *)
(* at its position.                                                        *)
PassedValue(entry) ==
  IF \E j \in 1..Len(last.call.kwargs) : last.call.kwargs[j].k = entry.key
    THEN last.call.kwargs[CHOOSE j \in 1..Len(last.call.kwargs) :
                            last.call.kwargs[j].k = entry.key].v
    ELSE last.call.args[entry.position + 1]

(* The calls of _copy_logic the last call made, in order. *)
CopySteps == SelectSeq(last.log, LAMBDA e : e.op = "copy_logic")

(* The step is the one of the entry: its value, under the key ending in    *)
(* its name.                                                               *)
StepOf(step, entry) ==
  /\ Passed(entry)
  /\ step.pathname = PassedValue(entry)
  /\ step.keys = <<KStr("StoreFiles"), KStr(Basename(storage_file.s)), KStr(entry.key)>>

(* The values passed for the declared entries name no bare path. *)
DeclaredPathsHaveDirectory ==
  \A entry \in Declared :
    Passed(entry) =>
      (PassedValue(entry).type = "str" /\ Dirname(PassedValue(entry).s) # EmptyStr)

(* C16 as claimed: in recording mode every declared entry has its step run *)
(* exactly once, on kwargs[name] or else args[position], under the key     *)
(* ending in its name; a call that passes a declared parameter neither way *)
(* fails.                                                                  *)
C16_EveryEntryResolved ==
  ( /\ last.op = "arg_references" /\ recording
    /\ storage_file.type = "str" /\ ~last.f.raises
    /\ DeclaredPathsHaveDirectory )
  => \A entry \in Declared :
       IF Passed(entry)
         THEN Cardinality({k \in 1..Len(CopySteps) : StepOf(CopySteps[k], entry)}) = 1
         ELSE last.exc # NoExc

(* C16, amended: in recording mode the declared entries are taken in the   *)
(* order of files_params, each resolved as kwargs[name] or else            *)
(* args[position] and its step run once under the key ending in its name,  *)
(* with no existence check, until a step fails or an entry was passed      *)
(* neither way (IndexError); the entries after that one are not taken; the *)
(* call returns only when every entry had its step; nothing is taken when  *)
(* no storage file is set (TypeError) or the wrapped call fails.           *)
C16_EntriesResolvedInOrder ==
  (last.op = "arg_references" /\ recording) =>
    /\ storage_file.type # "str" => (last.exc = "TypeError" /\ last.log = <<>>)
    /\ (storage_file.type = "str" /\ last.f.raises) =>
         (last.exc = "FuncError" /\ CopySteps = <<>>)
    /\ storage_file.type = "str" =>
         /\ Len(CopySteps) <= Len(last.files_params)
         /\ \A k \in 1..Len(CopySteps) : StepOf(CopySteps[k], last.files_params[k])
         /\ last.exc = NoExc => Len(CopySteps) = Len(last.files_params)
         /\ last.exc = "IndexError" =>
              /\ Len(CopySteps) < Len(last.files_params)
              /\ ~Passed(last.files_params[Len(CopySteps) + 1])
         /\ (Len(CopySteps) < Len(last.files_params)
             /\ Passed(last.files_params[Len(CopySteps) + 1])) =>
              last.exc \notin {NoExc, "IndexError"}

(* A parameter passed both at its position and by keyword, with different  *)
(* paths: the keyword's path had the step.                                 *)
C16_Witness ==
  /\ last.op = "arg_references" /\ recording
  /\ last.exc = NoExc
  /\ \E entry \in Declared :
       /\ entry.position < Len(last.call.args)
       /\ HasKwarg(last.call, entry.key)
       /\ last.call.args[entry.position + 1] # Kwarg(last.call, entry.key)
       /\ \E k \in 1..Len(CopySteps) : StepOf(CopySteps[k], entry)


----------------------------------------------------------------------------
(* Restoring into targets that exist *)

(* The files of the test: those of InitFs, a.txt in /w/t as well, and a    *)
(* directory /w/dst_dir holding the files b and e.                         *)
RestoreFs ==
  (<<"w", "t", "a.txt">> :> FileNode("O"))
  @@ (<<"w", "dst_dir">> :> DirNode)
  @@ (<<"w", "dst_dir", "b">> :> FileNode("B"))
  @@ (<<"w", "dst_dir", "e">> :> FileNode("E"))
  @@ InitFs

InitRestore ==
  /\ fs = RestoreFs
  /\ cwd = InitCwd
  /\ storage = [file \in StorageFiles |-> EmptyStore]
  /\ is_write_mode = TRUE
  /\ storage_file = VNone
  /\ recording = FALSE
  /\ last = Idle
  /\ keys_used = {}
  /\ ncalls = 0

abs_t == VStr(Abs(<<"w", "t">>))

dst_b == VStr(Rel(<<"dst_dir", "b">>))

RestorePaths == {abs_src_dir, abs_t, f_txt, e_dir, dst_dir, dst_b}

NextRestore ==
  \/ CallCopyLogicDirectly(RestorePaths, {<<KStr("k1")>>}, {FALSE}, FALSE)
  \/ Returned
  \/ SetWriteMode

SpecRestore == InitRestore /\ [][NextRestore]_vars

(* The archive the last call read and the path it restored it at. *)
Archive == last.store0[basic_ps_keys \o last.keys]

Target == Resolve(last.cwd0, last.pathname.s)

(* Where an entry of the archive goes. *)
EntryPath(k) ==
  Target \o SubSeq(Archive.members[k].name, 2, Len(Archive.members[k].name))

Entries == 1..Len(Archive.members)

(* An archived entry meets an entry of the other kind that was there. *)
MeetsOtherKind(k) ==
  /\ EntryPath(k) \in DOMAIN last.fs0
  /\ last.fs0[EntryPath(k)].kind # Archive.members[k].kind

(* _copy_logic in read mode with an archive in the store, on a target that *)
(* exists.                                                                 *)
RestoreIntoExistingTarget ==
  /\ last.op = "copy_logic" /\ ~is_write_mode
  /\ basic_ps_keys \o last.keys \in DOMAIN last.store0
  /\ last.pathname.type = "str"
  /\ Target \in DOMAIN last.fs0

(* Every entry that was there and is not an entry of the archive is        *)
(* unchanged, and every new entry is one of the archive.                   *)
OnlyArchivedEntriesWritten ==
  /\ \A a \in DOMAIN last.fs0 :
       /\ a \in DOMAIN fs
       /\ fs[a] # last.fs0[a] => \E k \in Entries : a = EntryPath(k)
  /\ \A a \in DOMAIN fs \ DOMAIN last.fs0 : \E k \in Entries : a = EntryPath(k)
  /\ \A a \in DOMAIN fs : ~IsPrefix(Target, a) => (a \in DOMAIN last.fs0 /\ fs[a] = last.fs0[a])

=============================================================================
